---- MODULE Spec2Model ----
(***************************************************************************)
(* Model of uploader_enumerator.py: the rules-file parser, the rule        *)
(* matcher and the directory walk of enumerate_files.                      *)
(*                                                                         *)
(* A Python str is a sequence of one-character strings, so that slicing,   *)
(* lowercasing, splitting and glob matching are computed, not assumed.     *)
(* None is the empty sequence where the code only tests truthiness.        *)
(***************************************************************************)
EXTENDS Naturals, Sequences, FiniteSets

(* ---------------------------------------------------------------------- *)
(* str primitives                                                          *)
(* ---------------------------------------------------------------------- *)

\* str.lower() on one character (the letters that occur in upper case).
LowerChar(c) ==
  CASE c = "A" -> "a"
    [] c = "D" -> "d"
    [] c = "E" -> "e"
    [] c = "L" -> "l"
    [] c = "M" -> "m"
    [] c = "R" -> "r"
    [] OTHER   -> c

\* str.lower()
lower(s) == [i \in 1..Len(s) |-> LowerChar(s[i])]

\* ord(): the code point that Python's str comparison orders by.
Ord(c) ==
  CASE c = " " -> 32 [] c = "!" -> 33 [] c = "#" -> 35 [] c = "*" -> 42
    [] c = "." -> 46 [] c = "/" -> 47 [] c = "?" -> 63
    [] c = "A" -> 65 [] c = "D" -> 68 [] c = "E" -> 69 [] c = "L" -> 76
    [] c = "M" -> 77
    [] c = "R" -> 82
    [] c = "[" -> 91 [] c = "]" -> 93 [] c = "_" -> 95
    [] c = "a" -> 97 [] c = "b" -> 98 [] c = "c" -> 99 [] c = "d" -> 100
    [] c = "e" -> 101 [] c = "f" -> 102 [] c = "h" -> 104 [] c = "i" -> 105
    [] c = "k" -> 107 [] c = "l" -> 108 [] c = "m" -> 109 [] c = "n" -> 110 [] c = "o" -> 111
    [] c = "p" -> 112 [] c = "r" -> 114 [] c = "s" -> 115 [] c = "t" -> 116
    [] c = "u" -> 117 [] c = "x" -> 120 [] c = "y" -> 121
    [] OTHER -> 127

\* a < b for str: lexicographic by code point, a proper prefix is smaller.
RECURSIVE StrLessFrom(_, _, _)
StrLessFrom(a, b, i) ==
  IF i > Len(b) THEN FALSE
  ELSE IF i > Len(a) THEN TRUE
  ELSE IF a[i] = b[i] THEN StrLessFrom(a, b, i + 1)
  ELSE Ord(a[i]) < Ord(b[i])

StrLess(a, b) == StrLessFrom(a, b, 1)

\* c in s
HasChar(s, c) == \E i \in 1..Len(s) : s[i] = c

\* s.count(c)
CountChar(s, c) == Cardinality({i \in 1..Len(s) : s[i] = c})

\* s.startswith(c) / s.endswith(c) for a one-character c
StartsWith(s, c) == Len(s) >= 1 /\ s[1] = c
EndsWith(s, c) == Len(s) >= 1 /\ s[Len(s)] = c

\* s[i-1:j] in Python terms: the characters at positions i..j (1-based).
Slice(s, i, j) == IF j < i THEN <<>> ELSE [k \in 1..(j - i + 1) |-> s[i + k - 1]]

\* index of the last c in s, 0 when there is none (str.rsplit(c, 1)).
LastIndex(s, c) ==
  IF HasChar(s, c)
    THEN CHOOSE i \in 1..Len(s) : s[i] = c /\ \A k \in (i + 1)..Len(s) : s[k] # c
    ELSE 0

\* str.strip(): only the space is whitespace in the modelled alphabet.
RECURSIVE strip(_)
strip(s) ==
  IF s = <<>> THEN s
  ELSE IF s[1] = " " THEN strip(Tail(s))
  ELSE IF s[Len(s)] = " " THEN strip(SubSeq(s, 1, Len(s) - 1))
  ELSE s

\* "/".join(parts)
RECURSIVE JoinSlash(_)
JoinSlash(parts) ==
  IF parts = <<>> THEN <<>>
  ELSE IF Len(parts) = 1 THEN parts[1]
  ELSE parts[1] \o <<"/">> \o JoinSlash(Tail(parts))

\* s.split("/")
RECURSIVE SplitSlashFrom(_, _, _)
SplitSlashFrom(s, i, cur) ==
  IF i > Len(s) THEN <<cur>>
  ELSE IF s[i] = "/" THEN <<cur>> \o SplitSlashFrom(s, i + 1, <<>>)
  ELSE SplitSlashFrom(s, i + 1, Append(cur, s[i]))

SplitSlash(s) == SplitSlashFrom(s, 1, <<>>)

(* ---------------------------------------------------------------------- *)
(* fnmatch.fnmatchcase: '*' any run (also across '/'), '?' one character,  *)
(* '[seq]' / '[!seq]' one character of / not of seq, an unclosed '[' is    *)
(* literal. The alphabet has no '-' and no backslash, so a bracket body    *)
(* holds no range and no escape.                                           *)
(* ---------------------------------------------------------------------- *)

\* fnmatch.translate's scan for the ']' closing the '[' at position j:
\* skip a leading '!', then a leading ']', then run to the next ']'.
RECURSIVE ScanClose(_, _)
ScanClose(p, k) ==
  IF k > Len(p) THEN 0
  ELSE IF p[k] = "]" THEN k
  ELSE ScanClose(p, k + 1)

ClassClose(p, j) ==
  LET j1 == IF j + 1 <= Len(p) /\ p[j + 1] = "!" THEN j + 2 ELSE j + 1
      j2 == IF j1 <= Len(p) /\ p[j1] = "]" THEN j1 + 1 ELSE j1
  IN ScanClose(p, j2)

\* does c match the bracket expression p[j..k] (p[j] = '[', p[k] = ']')
ClassMatches(c, p, j, k) ==
  LET neg   == p[j + 1] = "!"
      first == IF neg THEN j + 2 ELSE j + 1
      hit   == \E m \in first..(k - 1) : p[m] = c
  IN IF neg THEN ~hit ELSE hit

RECURSIVE MatchFrom(_, _, _, _)
MatchFrom(s, i, p, j) ==
  IF j > Len(p) THEN i > Len(s)
  ELSE IF p[j] = "*"
    THEN MatchFrom(s, i, p, j + 1) \/ (i <= Len(s) /\ MatchFrom(s, i + 1, p, j))
  ELSE IF p[j] = "?"
    THEN i <= Len(s) /\ MatchFrom(s, i + 1, p, j + 1)
  ELSE IF p[j] = "[" /\ ClassClose(p, j) # 0
    THEN LET k == ClassClose(p, j)
         IN i <= Len(s) /\ ClassMatches(s[i], p, j, k) /\ MatchFrom(s, i + 1, p, k + 1)
  ELSE i <= Len(s) /\ s[i] = p[j] /\ MatchFrom(s, i + 1, p, j + 1)

fnmatchcase(name, pat) == MatchFrom(name, 1, pat, 1)

(* ---------------------------------------------------------------------- *)
(* extract_extension                                                       *)
(* ---------------------------------------------------------------------- *)

\* None is <<>>: the function never returns the empty string.
extract_extension(basename) ==
  IF StartsWith(basename, ".") /\ CountChar(basename, ".") = 1
    THEN Slice(basename, 2, Len(basename))
  ELSE IF HasChar(basename, ".")
    THEN Slice(basename, LastIndex(basename, ".") + 1, Len(basename))
  ELSE <<>>

(* ---------------------------------------------------------------------- *)
(* RulesMatcher: self is [sections, case_sensitive]                        *)
(* ---------------------------------------------------------------------- *)

RulesMatcher(sections, case_sensitive) ==
  [sections |-> sections, case_sensitive |-> case_sensitive]

fnmatch_lower_candidate_only(self, candidate, pattern) ==
  fnmatchcase(IF self.case_sensitive THEN candidate ELSE lower(candidate), pattern)

_fnmatch(self, candidate, pattern) ==
  IF ~self.case_sensitive
    THEN fnmatchcase(lower(candidate), lower(pattern))
    ELSE fnmatchcase(candidate, pattern)

\* rel_path_for_file.split("/")[:-1]
DirParts(rel_path_for_file) ==
  LET parts == SplitSlash(rel_path_for_file)
  IN SubSeq(parts, 1, Len(parts) - 1)

folder_rule_matches_any_ancestor(self, rel_path_for_file, rule_pattern) ==
  IF HasChar(rule_pattern, "/")
    THEN LET dir_part == JoinSlash(DirParts(rel_path_for_file))
         IN IF dir_part = <<>> THEN FALSE ELSE _fnmatch(self, dir_part, rule_pattern)
    ELSE \E n \in 1..Len(DirParts(rel_path_for_file)) :
           _fnmatch(self, DirParts(rel_path_for_file)[n], rule_pattern)

file_rule_matches(self, basename, rel_posix, pattern) ==
  IF HasChar(pattern, "/")
    THEN _fnmatch(self, rel_posix, pattern)
    ELSE _fnmatch(self, basename, pattern)

\* the a == b comparisons of include_path_by_file and of the extension rules
CaseEq(self, p, q) ==
  IF self.case_sensitive THEN p = q ELSE lower(p) = lower(q)

is_included_path_as_glob(self, basename, rel_posix, extension) ==
  \/ \E n \in 1..Len(self.sections.include_path_by_file) :
       _fnmatch(self, rel_posix, self.sections.include_path_by_file[n])
  \/ \E n \in 1..Len(self.sections.include_file) :
       file_rule_matches(self, basename, rel_posix, self.sections.include_file[n])
  \/ \E n \in 1..Len(self.sections.include_folder) :
       folder_rule_matches_any_ancestor(self, rel_posix, self.sections.include_folder[n])
  \/ /\ extension # <<>>
     /\ \E n \in 1..Len(self.sections.include_extension) :
          CaseEq(self, self.sections.include_extension[n], extension)

is_included_by_rules(self, basename, rel_posix, extension) ==
  \/ \E n \in 1..Len(self.sections.include_path_by_file) :
       CaseEq(self, self.sections.include_path_by_file[n], rel_posix)
  \/ \E n \in 1..Len(self.sections.include_file) :
       file_rule_matches(self, basename, rel_posix, self.sections.include_file[n])
  \/ \E n \in 1..Len(self.sections.include_folder) :
       folder_rule_matches_any_ancestor(self, rel_posix, self.sections.include_folder[n])
  \/ /\ extension # <<>>
     /\ \E n \in 1..Len(self.sections.include_extension) :
          CaseEq(self, self.sections.include_extension[n], extension)

is_excluded_without_self_exclusion(self, basename, rel_posix, extension, rules_fn) ==
  \/ \E n \in 1..Len(self.sections.exclude_file) :
       file_rule_matches(self, basename, rel_posix, self.sections.exclude_file[n])
  \/ \E n \in 1..Len(self.sections.exclude_folder) :
       folder_rule_matches_any_ancestor(self, rel_posix, self.sections.exclude_folder[n])
  \/ /\ extension # <<>>
     /\ \E n \in 1..Len(self.sections.exclude_extension) :
          CaseEq(self, self.sections.exclude_extension[n], extension)

\* rules_filename None is <<>>
is_excluded_by_rules(self, basename, rel_posix, extension, rules_fn) ==
  \/ rules_fn # <<>> /\ basename = rules_fn
  \/ \E n \in 1..Len(self.sections.exclude_file) :
       file_rule_matches(self, basename, rel_posix, self.sections.exclude_file[n])
  \/ \E n \in 1..Len(self.sections.exclude_folder) :
       folder_rule_matches_any_ancestor(self, rel_posix, self.sections.exclude_folder[n])
  \/ /\ extension # <<>>
     /\ \E n \in 1..Len(self.sections.exclude_extension) :
          CaseEq(self, self.sections.exclude_extension[n], extension)

(* ---------------------------------------------------------------------- *)
(* read_rules_file                                                         *)
(* ---------------------------------------------------------------------- *)

SectionKeys ==
  {"exclude_folder", "exclude_file", "exclude_extension", "include_folder",
   "include_file", "include_extension", "include_path_by_file"}

\* the text of a section name as it stands in a '[name]' line
KeyText(k) ==
  CASE k = "exclude_folder" -> <<"e", "x", "c", "l", "u", "d", "e", "_", "f", "o", "l", "d", "e", "r">>
    [] k = "exclude_file" -> <<"e", "x", "c", "l", "u", "d", "e", "_", "f", "i", "l", "e">>
    [] k = "exclude_extension" -> <<"e", "x", "c", "l", "u", "d", "e", "_", "e", "x", "t", "e", "n", "s", "i", "o", "n">>
    [] k = "include_folder" -> <<"i", "n", "c", "l", "u", "d", "e", "_", "f", "o", "l", "d", "e", "r">>
    [] k = "include_file" -> <<"i", "n", "c", "l", "u", "d", "e", "_", "f", "i", "l", "e">>
    [] k = "include_extension" -> <<"i", "n", "c", "l", "u", "d", "e", "_", "e", "x", "t", "e", "n", "s", "i", "o", "n">>
    [] k = "include_path_by_file" -> <<"i", "n", "c", "l", "u", "d", "e", "_", "p", "a", "t", "h", "_", "b", "y", "_", "f", "i", "l", "e">>

EmptySections ==
  [exclude_folder |-> <<>>, exclude_file |-> <<>>, exclude_extension |-> <<>>,
   include_folder |-> <<>>, include_file |-> <<>>, include_extension |-> <<>>,
   include_path_by_file |-> <<>>]

\* the loop over raw.splitlines(); current None is ""
RECURSIVE ParseLines(_, _, _)
ParseLines(lines, current, sections) ==
  IF lines = <<>> THEN sections
  ELSE LET line == strip(Head(lines))
       IN IF line = <<>> \/ StartsWith(line, "#")
            THEN ParseLines(Tail(lines), current, sections)
          ELSE IF StartsWith(line, "[") /\ EndsWith(line, "]")
            THEN LET sect == strip(Slice(line, 2, Len(line) - 1))
                 IN IF \E k \in SectionKeys : KeyText(k) = sect
                      THEN ParseLines(Tail(lines),
                                      CHOOSE k \in SectionKeys : KeyText(k) = sect,
                                      sections)
                      ELSE ParseLines(Tail(lines), "", sections)
          ELSE IF current # ""
            THEN ParseLines(Tail(lines), current,
                            [sections EXCEPT ![current] = Append(@, line)])
          ELSE ParseLines(Tail(lines), current, sections)

dedupe_skipped(vs, out) == out \o vs

\* "dedupe while preserving order": keep the first occurrence of each value
RECURSIVE Dedupe(_, _)
Dedupe(vs, out) ==
  IF vs = <<>> THEN out
  ELSE IF \E n \in 1..Len(out) : out[n] = Head(vs)
    THEN Dedupe(Tail(vs), out)
    ELSE Dedupe(Tail(vs), Append(out, Head(vs)))

\* path is the rules file as the filesystem holds it:
\* [exists, readable, lines]
read_rules_file(path) ==
  IF ~path.exists THEN EmptySections
  ELSE IF ~path.readable THEN EmptySections
  ELSE LET parsed == ParseLines(path.lines, "", EmptySections)
       IN [k \in SectionKeys |-> Dedupe(parsed[k], <<>>)]

(* ---------------------------------------------------------------------- *)
(* The filesystem under the root and the inputs of enumerate_files         *)
(* ---------------------------------------------------------------------- *)

\* The most tree entries and rule lines one run starts from.
MaxSize == 3

\* The most symbolic links the kernel follows while resolving one path
\* (ELOOP past it).
SymlinkMax == 2

\* the rules_filename argument
rules_filename == <<".", "r">>

\* Non-directory entries a tree may hold: a regular file, a symlink to a
\* file, a dangling symlink, and an entry on which os.lstat raises.
FileUniverse ==
  {[dir |-> <<>>, name |-> <<"a", ".", "m">>, kind |-> "file"],
   [dir |-> <<<<"d">>>>, name |-> <<"a", ".", "m">>, kind |-> "file"],
   [dir |-> <<<<"D">>>>, name |-> <<"A", ".", "M">>, kind |-> "file"],
   [dir |-> <<<<"d">>, <<"e">>>>, name |-> <<"a", ".", "m">>, kind |-> "file"],
   [dir |-> <<<<"d">>, <<"e">>, <<"D">>>>, name |-> <<"b">>, kind |-> "file"],
   [dir |-> <<<<"d">>>>, name |-> <<".", "r">>, kind |-> "file"],
   [dir |-> <<>>, name |-> <<".", "h">>, kind |-> "file"],
   [dir |-> <<<<"d">>>>, name |-> <<"k">>, kind |-> "filelink"],
   [dir |-> <<>>, name |-> <<"x">>, kind |-> "broken"],
   [dir |-> <<<<"d">>>>, name |-> <<"n">>, kind |-> "nostat"]}

\* Directory symlinks a tree may hold; the second points at the directory
\* that holds it.
LinkUniverse ==
  {[dir |-> <<>>, name |-> <<"L">>, target |-> <<<<"d">>>>],
   [dir |-> <<<<"D">>>>, name |-> <<"L">>, target |-> <<<<"D">>>>]}

\* Rule lines a rules file may hold, as <<section, line>>.
RulePool ==
  {<<"exclude_folder", <<"d">>>>,
   <<"exclude_folder", <<"d", "/", "e">>>>,
   <<"exclude_file", <<"*">>>>,
   <<"exclude_extension", <<"m">>>>,
   <<"include_folder", <<"e">>>>,
   <<"include_file", <<"d", "/", "*">>>>,
   <<"include_file", <<"[", "!", "b", "]", ".", "M">>>>,
   <<"include_extension", <<"m">>>>,
   <<"include_path_by_file", <<"d", "/", "a", ".", "m">>>>,
   <<"include_path_by_file", <<"d", "/", "*">>>>}

\* the subsets of S with at most k elements
RECURSIVE SubsetsUpTo(_, _)
SubsetsUpTo(S, k) ==
  IF k = 0 THEN {{}}
  ELSE LET prev == SubsetsUpTo(S, k - 1)
       IN prev \cup {s \cup {x} : s \in prev, x \in S}

\* a set laid out as a sequence, in a fixed order
RECURSIVE SetToSeq(_)
SetToSeq(S) ==
  IF S = {} THEN <<>>
  ELSE LET x == CHOOSE y \in S : TRUE IN <<x>> \o SetToSeq(S \ {x})

\* the lines of section k of a rules file holding the rule lines R
RECURSIVE SectionLines(_, _)
SectionLines(k, rs) ==
  IF rs = <<>> THEN <<>>
  ELSE IF Head(rs)[1] = k THEN <<Head(rs)[2]>> \o SectionLines(k, Tail(rs))
  ELSE SectionLines(k, Tail(rs))

RECURSIVE RulesText(_, _)
RulesText(ks, R) ==
  IF ks = <<>> THEN <<>>
  ELSE LET body == SectionLines(Head(ks), SetToSeq(R))
       IN (IF body = <<>> THEN <<>>
           ELSE <<(<<"[">> \o KeyText(Head(ks)) \o <<"]">>)>> \o body)
          \o RulesText(Tail(ks), R)

SectionOrder ==
  <<"exclude_folder", "exclude_file", "exclude_extension", "include_folder",
    "include_file", "include_extension", "include_path_by_file">>

\* every order in which a directory listing can yield the members of S
Orders(S) ==
  {f \in [1..Cardinality(S) -> S] : \A i, j \in 1..Cardinality(S) : i # j => f[i] # f[j]}

Prefixes(p) == {SubSeq(p, 1, n) : n \in 0..Len(p)}

VARIABLES
  tree,             \* the non-directory entries under the root
  links,            \* the directory symlinks under the root
  rules_path,       \* root / rules_filename: [exists, readable, lines]
  follow_symlinks, case_sensitive, include_dotfiles,
  pc,               \* "start", "walk", "done"
  matcher,          \* RulesMatcher(sections, case_sensitive)
  stack,            \* directories os.walk has still to yield, next first
  dirpath,          \* the directory being yielded, as names below the root
  filenames,        \* its filenames not yet iterated, in listing order
  result_files, seen,
  warnings,         \* what debug_print reported
  files             \* the "files" of the returned dict

vars ==
  <<tree, links, rules_path, follow_symlinks, case_sensitive, include_dotfiles,
    pc, matcher, stack, dirpath, filenames, result_files, seen, warnings, files>>

inputs == <<tree, links, rules_path, follow_symlinks, case_sensitive, include_dotfiles>>

\* the directories that exist: every ancestor of an entry, and link targets
RealDirs ==
  UNION {Prefixes(e.dir) : e \in tree \cup links}
    \cup UNION {Prefixes(l.target) : l \in links}

\* the root's rules file is itself an entry of the root directory
RulesEntry == [dir |-> <<>>, name |-> rules_filename, kind |-> "file"]

Init ==
  /\ \E F \in SubsetsUpTo(FileUniverse, MaxSize) :
       \E L \in SubsetsUpTo(LinkUniverse, MaxSize - Cardinality(F)) :
         \E R \in SubsetsUpTo(RulePool, MaxSize - Cardinality(F) - Cardinality(L)) :
           \E rf \in {"absent", "unreadable", "readable"} :
             /\ rf # "readable" => R = {}
             /\ tree = F \cup (IF rf = "absent" THEN {} ELSE {RulesEntry})
             /\ links = L
             /\ rules_path = [exists   |-> rf # "absent",
                              readable |-> rf = "readable",
                              lines    |-> IF rf = "readable"
                                             THEN RulesText(SectionOrder, R)
                                             ELSE <<>>]
  /\ follow_symlinks \in BOOLEAN
  /\ case_sensitive \in BOOLEAN
  /\ include_dotfiles \in BOOLEAN
  /\ pc = "start"
  /\ matcher = RulesMatcher(EmptySections, case_sensitive)
  /\ stack = <<>>
  /\ dirpath = <<>>
  /\ filenames = <<>>
  /\ result_files = <<>>
  /\ seen = {}
  /\ warnings = {}
  /\ files = <<>>

(* ---------------------------------------------------------------------- *)
(* enumerate_files                                                         *)
(* ---------------------------------------------------------------------- *)

\* lines 262-272: resolve the root, read the rules, build the matcher
ReadRules ==
  /\ pc = "start"
  /\ matcher' = RulesMatcher(read_rules_file(rules_path), case_sensitive)
  /\ warnings' = IF rules_path.exists /\ ~rules_path.readable
                   THEN warnings \cup {<<"rules", rules_filename>>}
                   ELSE warnings
  /\ stack' = <<[rel |-> <<>>, real |-> <<>>, nlinks |-> 0]>>
  /\ pc' = "walk"
  /\ UNCHANGED <<inputs, dirpath, filenames, result_files, seen, files>>

\* os.walk(top): what scandir(top) lists, split by entry.is_dir()
\* top is [rel, real, nlinks]: the path as walked, the directory it resolves
\* to, and the symlinks followed on the way.
Resolvable(top) == top.nlinks + 1 <= SymlinkMax

\* the nondirs: files, file symlinks, dangling symlinks, and a directory
\* symlink whose resolution fails. Each is [name, lstat_ok]; os.lstat does
\* not follow a link, so it succeeds on a dangling symlink.
ListedFiles(top) ==
  {[name |-> e.name, lstat_ok |-> e.kind # "nostat"] : e \in {x \in tree : x.dir = top.real}}
    \cup (IF Resolvable(top) THEN {}
          ELSE {[name |-> l.name, lstat_ok |-> TRUE] : l \in {x \in links : x.dir = top.real}})

\* the dirs os.walk descends into: real subdirectories always, directory
\* symlinks only with followlinks
walk_into_links_always(top) ==
  {[rel |-> Append(top.rel, d[Len(d)]), real |-> d, nlinks |-> top.nlinks] :
     d \in {x \in RealDirs : Len(x) = Len(top.real) + 1 /\ SubSeq(x, 1, Len(top.real)) = top.real}}
    \cup {[rel |-> Append(top.rel, l.name), real |-> l.target, nlinks |-> top.nlinks + 1] :
            l \in {x \in links : x.dir = top.real /\ Resolvable(top)}}

\* a walk that descends into the link's target under the target's own path
walked_dirs_resolve_links(top) ==
  {[rel |-> Append(top.rel, d[Len(d)]), real |-> d, nlinks |-> top.nlinks] :
     d \in {x \in RealDirs : Len(x) = Len(top.real) + 1 /\ SubSeq(x, 1, Len(top.real)) = top.real}}
    \cup {[rel |-> l.target, real |-> l.target, nlinks |-> top.nlinks] :
            l \in {x \in links : x.dir = top.real /\ follow_symlinks}}

WalkedDirs(top) ==
  {[rel |-> Append(top.rel, d[Len(d)]), real |-> d, nlinks |-> top.nlinks] :
     d \in {x \in RealDirs : Len(x) = Len(top.real) + 1 /\ SubSeq(x, 1, Len(top.real)) = top.real}}
    \cup {[rel |-> Append(top.rel, l.name), real |-> l.target, nlinks |-> top.nlinks + 1] :
            l \in {x \in links : x.dir = top.real /\ Resolvable(top) /\ follow_symlinks}}

\* line 275: the walk yields its next directory
WalkDir ==
  /\ pc = "walk"
  /\ filenames = <<>>
  /\ stack # <<>>
  /\ LET top == Head(stack)
     IN /\ dirpath' = top.rel
        /\ \E fs \in Orders(ListedFiles(top)) : filenames' = fs
        /\ \E ds \in Orders(WalkedDirs(top)) : stack' = ds \o Tail(stack)
  /\ UNCHANGED <<inputs, pc, matcher, result_files, seen, warnings, files>>

\* lines 286-298 for the filename being iterated
fname == Head(filenames)
rel == JoinSlash(Append(dirpath, fname.name))
basename == fname.name
extension == extract_extension(basename)

\* lines 315-316
include_hit == is_included_by_rules(matcher, basename, rel, extension)
exclude_hit == is_excluded_by_rules(matcher, basename, rel, extension, rules_filename)

dotfile_skipped_unless_included ==
  ~include_dotfiles /\ StartsWith(basename, ".") /\ ~include_hit

\* lines 301-304
DotfileSkipped == ~include_dotfiles /\ StartsWith(basename, ".")

keep_exclude_first == IF exclude_hit THEN FALSE ELSE TRUE

\* lines 323-329
keep == IF include_hit THEN TRUE ELSE IF exclude_hit THEN FALSE ELSE TRUE

SkipDotfile ==
  /\ pc = "walk"
  /\ filenames # <<>>
  /\ DotfileSkipped
  /\ filenames' = Tail(filenames)
  /\ UNCHANGED <<inputs, pc, matcher, stack, dirpath, result_files, seen, warnings, files>>

\* lines 307-311
SkipLstatError ==
  /\ pc = "walk"
  /\ filenames # <<>>
  /\ ~DotfileSkipped
  /\ ~fname.lstat_ok
  /\ warnings' = warnings \cup {<<"lstat", rel>>}
  /\ filenames' = Tail(filenames)
  /\ UNCHANGED <<inputs, pc, matcher, stack, dirpath, result_files, seen, files>>

\* lines 313-335. The matcher is total on strings, so the except branch of
\* lines 317-320 is never taken.
Decide ==
  /\ pc = "walk"
  /\ filenames # <<>>
  /\ ~DotfileSkipped
  /\ fname.lstat_ok
  /\ IF keep /\ rel \notin seen
       THEN /\ seen' = seen \cup {rel}
            /\ result_files' = Append(result_files, rel)
       ELSE UNCHANGED <<seen, result_files>>
  /\ filenames' = Tail(filenames)
  /\ UNCHANGED <<inputs, pc, matcher, stack, dirpath, warnings, files>>

\* list.sort(): insertion into an ascending list
RECURSIVE Insert(_, _)
Insert(x, sorted) ==
  IF sorted = <<>> THEN <<x>>
  ELSE IF StrLess(Head(sorted), x) THEN <<Head(sorted)>> \o Insert(x, Tail(sorted))
  ELSE <<x>> \o sorted

RECURSIVE InsertAll(_, _)
InsertAll(xs, sorted) ==
  IF xs = <<>> THEN sorted
  ELSE CHOOSE out \in {InsertAll(Tail(xs), s) : s \in {Insert(Head(xs), sorted)}} : TRUE

sort_skipped(xs) == xs

sort(xs) == InsertAll(xs, <<>>)

\* lines 338-339
Return ==
  /\ pc = "walk"
  /\ filenames = <<>>
  /\ stack = <<>>
  /\ files' = sort(result_files)
  /\ pc' = "done"
  /\ UNCHANGED <<inputs, matcher, stack, dirpath, filenames, result_files, seen, warnings>>

Next == ReadRules \/ WalkDir \/ SkipDotfile \/ SkipLstatError \/ Decide \/ Return

Spec == Init /\ [][Next]_vars

(* ---------------------------------------------------------------------- *)
(* read_rules_file on its own: the rules file holds any lines              *)
(* ---------------------------------------------------------------------- *)

\* The most lines a rules file holds.
MaxLines == 4

\* Lines a rules file may hold: two recognized headers (one padded with
\* spaces), an unrecognized header, a comment, a blank line, and patterns
\* (one of them twice, once with a leading space).
LinePool ==
  {<<"[", "e", "x", "c", "l", "u", "d", "e", "_", "f", "o", "l", "d", "e", "r", "]">>,
   <<"[", " ", "i", "n", "c", "l", "u", "d", "e", "_", "f", "i", "l", "e", " ", "]">>,
   <<"[", "x", "]">>,
   <<"#", "d">>,
   <<" ">>,
   <<"d">>,
   <<" ", "d">>,
   <<"m">>}

ParseInit ==
  /\ \E rf \in {"absent", "unreadable", "readable"} :
       \E n \in 0..MaxLines :
         \E ls \in [1..n -> LinePool] :
           /\ rf # "readable" => n = 0
           /\ rules_path = [exists |-> rf # "absent", readable |-> rf = "readable", lines |-> ls]
           /\ tree = IF rf = "absent" THEN {} ELSE {RulesEntry}
  /\ links = {}
  /\ follow_symlinks = FALSE
  /\ case_sensitive = TRUE
  /\ include_dotfiles = TRUE
  /\ pc = "start"
  /\ matcher = RulesMatcher(EmptySections, case_sensitive)
  /\ stack = <<>>
  /\ dirpath = <<>>
  /\ filenames = <<>>
  /\ result_files = <<>>
  /\ seen = {}
  /\ warnings = {}
  /\ files = <<>>

SpecParse == ParseInit /\ [][ReadRules]_vars

(* ---------------------------------------------------------------------- *)
(* The walk on its own: any tree, no rules. enumerate_files is one         *)
(* sequential call, so a step that can be taken is taken.                  *)
(* ---------------------------------------------------------------------- *)

WalkInit ==
  /\ \E F \in SubsetsUpTo(FileUniverse, MaxSize) :
       \E L \in SubsetsUpTo(LinkUniverse, MaxSize - Cardinality(F)) :
         \E rf \in {"absent", "unreadable"} :
           /\ tree = F \cup (IF rf = "absent" THEN {} ELSE {RulesEntry})
           /\ links = L
           /\ rules_path = [exists |-> rf # "absent", readable |-> FALSE, lines |-> <<>>]
  /\ follow_symlinks \in BOOLEAN
  /\ case_sensitive = TRUE
  /\ include_dotfiles \in BOOLEAN
  /\ pc = "start"
  /\ matcher = RulesMatcher(EmptySections, case_sensitive)
  /\ stack = <<>>
  /\ dirpath = <<>>
  /\ filenames = <<>>
  /\ result_files = <<>>
  /\ seen = {}
  /\ warnings = {}
  /\ files = <<>>

SpecWalk == WalkInit /\ [][Next]_vars /\ WF_vars(Next)

(* ====================================================================== *)
(* Properties                                                              *)
(* ====================================================================== *)

\* The directories the walk yields and the entries it lists, as sets: what
\* the walk visits whatever the order of the listings.
Root == [rel |-> <<>>, real |-> <<>>, nlinks |-> 0]

RECURSIVE Walked(_)
Walked(top) == {top} \cup UNION {Walked(c) : c \in WalkedDirs(top)}

Candidates ==
  UNION {{[dir |-> t.rel, name |-> f.name, lstat_ok |-> f.lstat_ok] : f \in ListedFiles(t)} :
           t \in Walked(Root)}

RelOf(c) == JoinSlash(Append(c.dir, c.name))
ExtOf(c) == extract_extension(c.name)
InFiles(x) == \E n \in 1..Len(files) : files[n] = x
IsDotfile(c) == StartsWith(c.name, ".")

\* c reaches the rule evaluation: no dotfile skip, no lstat error
Evaluated(c) == c.lstat_ok /\ (include_dotfiles \/ ~IsDotfile(c))

Included(c) == is_included_by_rules(matcher, c.name, RelOf(c), ExtOf(c))
Excluded(c) == is_excluded_by_rules(matcher, c.name, RelOf(c), ExtOf(c), rules_filename)
\* the explicit exclude rules alone, without the rules-file self-exclusion
ExcludedByRule(c) == is_excluded_by_rules(matcher, c.name, RelOf(c), ExtOf(c), <<>>)

\* C1: a file that reaches the rule evaluation and that an include rule
\* matches is in the returned list, whatever the exclude rules and the
\* rules-file self-exclusion say about it.
C1_IncludeWins ==
  pc = "done" =>
    \A c \in Candidates : Evaluated(c) /\ Included(c) => InFiles(RelOf(c))

\* C1 witness: a returned file matched by an include rule and by an exclude
\* rule (or the self-exclusion) at once.
C1_Witness ==
  /\ pc = "done"
  /\ \E c \in Candidates :
       Evaluated(c) /\ Included(c) /\ Excluded(c) /\ InFiles(RelOf(c))

\* every file of the tree, by its path from the root
TreePaths == {RelOf(e) : e \in tree}
FileSet == {files[n] : n \in 1..Len(files)}

StrictlyAscending(xs) == \A n \in 1..(Len(xs) - 1) : StrLess(xs[n], xs[n + 1])

\* C2: with no rules file at the root, default flags and no entry failing
\* lstat, the returned list is the ascending list of all files of the tree.
C2_NoRulesKeepsAll ==
  (/\ pc = "done"
   /\ ~rules_path.exists
   /\ ~follow_symlinks /\ case_sensitive /\ include_dotfiles
   /\ \A e \in tree : e.kind # "nostat")
    => FileSet = TreePaths /\ StrictlyAscending(files)

\* c lies under the folder a literal exclude_folder line p names: p without
\* '/' names a directory by its name at any depth, p with '/' names it by its
\* path from the root. Names compare under the case policy.
UnderFolder(c, p) ==
  LET comps == SplitSlash(p)
  IN IF Len(comps) = 1
       THEN \E n \in 1..Len(c.dir) : CaseEq(matcher, c.dir[n], p)
       ELSE /\ Len(c.dir) >= Len(comps)
            /\ \A n \in 1..Len(comps) : CaseEq(matcher, c.dir[n], comps[n])

ExcludeFolders ==
  {matcher.sections.exclude_folder[n] : n \in 1..Len(matcher.sections.exclude_folder)}

\* C3: a file under a folder that an exclude_folder line names, directly or
\* in a nested subfolder, and that no include rule matches, is not returned;
\* a file under no such folder, with no other exclude rule in force, is.
C3_ExcludeFolderDropsContents ==
  pc = "done" =>
    \A c \in Candidates :
      Evaluated(c) /\ ~Included(c) =>
        /\ (\E p \in ExcludeFolders : UnderFolder(c, p)) => ~InFiles(RelOf(c))
        /\ (/\ \A p \in ExcludeFolders : ~UnderFolder(c, p)
            /\ matcher.sections.exclude_file = <<>>
            /\ matcher.sections.exclude_extension = <<>>
            /\ c.name # rules_filename) => InFiles(RelOf(c))

\* C4: a file named like the rules file that no include rule matches is not
\* returned, with or without an exclude rule that names it.
C4_RulesFileSelfExcluded ==
  pc = "done" =>
    \A c \in Candidates :
      c.name = rules_filename /\ ~Included(c) => ~InFiles(RelOf(c))

\* C4 witness: the root's rules file reached the rule evaluation, no exclude
\* rule matches it, and it is not returned while another file is.
C4_Witness ==
  /\ pc = "done"
  /\ rules_path.exists
  /\ files # <<>>
  /\ \E c \in Candidates :
       /\ c.dir = <<>> /\ c.name = rules_filename
       /\ Evaluated(c) /\ ~ExcludedByRule(c) /\ ~InFiles(RelOf(c))

\* the include rules other than include_path_by_file
IncludedByPattern(c) ==
  is_included_by_rules([matcher EXCEPT !.sections.include_path_by_file = <<>>],
                       c.name, RelOf(c), ExtOf(c))

\* an include_path_by_file line equals the whole relative path of c
PathListed(c) ==
  \E n \in 1..Len(matcher.sections.include_path_by_file) :
    IF case_sensitive
      THEN matcher.sections.include_path_by_file[n] = RelOf(c)
      ELSE lower(matcher.sections.include_path_by_file[n]) = lower(RelOf(c))

\* an include_path_by_file line, read as a glob, would match c
PathGlobbed(c) ==
  \E n \in 1..Len(matcher.sections.include_path_by_file) :
    _fnmatch(matcher, RelOf(c), matcher.sections.include_path_by_file[n])

\* C5: an excluded file that no other include rule matches is returned
\* exactly when an include_path_by_file line equals its whole relative path
\* under the case policy.
C5_ExactPathOnly ==
  pc = "done" =>
    \A c \in Candidates :
      Evaluated(c) /\ Excluded(c) /\ ~IncludedByPattern(c) =>
        (InFiles(RelOf(c)) <=> PathListed(c))

\* C5 witness: a file of an excluded folder stays out although an
\* include_path_by_file line with glob characters would match it as a glob.
C5_Witness ==
  /\ pc = "done"
  /\ \E c \in Candidates :
       /\ Evaluated(c) /\ ExcludedByRule(c) /\ ~IncludedByPattern(c)
       /\ \E p \in ExcludeFolders : UnderFolder(c, p)
       /\ PathGlobbed(c) /\ ~PathListed(c) /\ ~InFiles(RelOf(c))

\* the verdict of lines 323-329 on c
Verdict(c) == Included(c) \/ ~Excluded(c)

\* c is not skipped by the dotfile flag
PastDotfileFlag(c) == include_dotfiles \/ ~IsDotfile(c)

\* the relative path x runs through a directory symlink of the tree
ThroughLink(x) ==
  \E l \in links :
    LET lp == Append(l.dir, l.name)
        comps == SplitSlash(x)
    IN Len(comps) > Len(lp) /\ SubSeq(comps, 1, Len(lp)) = lp

\* C6: a file symlink is evaluated like a file under its own path whatever
\* follow_symlinks is; a returned path runs through a directory symlink only
\* with follow_symlinks, and with it the files of the link's target are
\* evaluated under the link's path.
C6_SymlinkPolicy ==
  pc = "done" =>
    /\ \A e \in tree :
         e.kind = "filelink" /\ PastDotfileFlag(e) =>
           (InFiles(RelOf(e)) <=> Verdict(e))
    /\ \A n \in 1..Len(files) : ThroughLink(files[n]) => follow_symlinks
    /\ follow_symlinks =>
         \A l \in links : \A e \in tree :
           e.dir = l.target /\ e.kind # "nostat" /\ PastDotfileFlag(e) =>
             LET c == [dir |-> Append(l.dir, l.name), name |-> e.name]
             IN InFiles(RelOf(c)) <=> Verdict(c)

\* C6 witness: with follow_symlinks a file symlink is returned under its own
\* path and a file is returned under a directory symlink's path.
C6_Witness ==
  /\ pc = "done"
  /\ follow_symlinks
  /\ \E e \in tree : e.kind = "filelink" /\ InFiles(RelOf(e))
  /\ \E n \in 1..Len(files) : ThroughLink(files[n])

\* C7: an entry the walk fails on (a dangling symlink, an entry whose lstat
\* raises) is not returned and is reported by a warning, and the plain files
\* are still evaluated.
C7_EntryFailureSkipped ==
  pc = "done" =>
    /\ \A e \in tree :
         e.kind \in {"broken", "nostat"} /\ PastDotfileFlag(e) =>
           ~InFiles(RelOf(e)) /\ <<"lstat", RelOf(e)>> \in warnings
    /\ \A e \in tree :
         e.kind \in {"file", "filelink"} /\ PastDotfileFlag(e) =>
           (InFiles(RelOf(e)) <=> Verdict(e))

\* C8: without include_dotfiles no returned path has a basename starting
\* with '.', include rule or not; with it a dotfile is returned exactly on
\* the verdict of the rules.
C8_DotfilesSkipped ==
  pc = "done" =>
    \A c \in Candidates :
      IsDotfile(c) =>
        IF include_dotfiles
          THEN c.lstat_ok => (InFiles(RelOf(c)) <=> Verdict(c))
          ELSE ~InFiles(RelOf(c))

\* C8 witness: a dotfile that an include rule matches is left out when
\* include_dotfiles is false.
C8_Witness ==
  /\ pc = "done"
  /\ ~include_dotfiles
  /\ \E c \in Candidates :
       IsDotfile(c) /\ c.lstat_ok /\ Included(c) /\ ~InFiles(RelOf(c))

\* the paths the verdicts keep, as a set: no listing order enters it
ExpectedSet == {RelOf(c) : c \in {x \in Candidates : Evaluated(x) /\ Verdict(x)}}

\* C9: the returned list is strictly ascending by code point and holds
\* exactly the kept paths, so it is one list whatever order the walk took.
C9_SortedDeterministic ==
  pc = "done" => StrictlyAscending(files) /\ FileSet = ExpectedSet

\* C9 witness: the walk collected at least two paths in an order that is not
\* the returned one.
C9_Witness ==
  /\ pc = "done"
  /\ Len(files) >= 2
  /\ result_files # files

\* str.upper() on the letters whose lower case the alphabet holds
UpperChar(c) ==
  CASE c = "a" -> "A"
    [] c = "d" -> "D"
    [] c = "e" -> "E"
    [] c = "l" -> "L"
    [] c = "m" -> "M"
    [] c = "r" -> "R"
    [] OTHER   -> c

upper(s) == [i \in 1..Len(s) |-> UpperChar(s[i])]

\* a string with its letter case changed
CaseVariants(s) == {s, lower(s), upper(s)}

\* the matcher with the letter case of every rule line changed
MatcherVariants ==
  {matcher,
   [matcher EXCEPT !.sections =
      [k \in SectionKeys |-> [n \in 1..Len(matcher.sections[k]) |-> lower(matcher.sections[k][n])]]],
   [matcher EXCEPT !.sections =
      [k \in SectionKeys |-> [n \in 1..Len(matcher.sections[k]) |-> upper(matcher.sections[k][n])]]]}

\* a candidate with the letter case of its path changed
CandidateVariants(c) ==
  {c,
   [dir |-> [n \in 1..Len(c.dir) |-> lower(c.dir[n])], name |-> lower(c.name)],
   [dir |-> [n \in 1..Len(c.dir) |-> upper(c.dir[n])], name |-> upper(c.name)]}

\* what the include rules and the explicit exclude rules of m say about c
RuleVerdicts(m, c) ==
  <<is_included_by_rules(m, c.name, RelOf(c), ExtOf(c)),
    is_excluded_by_rules(m, c.name, RelOf(c), ExtOf(c), <<>>)>>

OnlyRule(k, line) ==
  /\ matcher.sections[k] = <<line>>
  /\ \A j \in SectionKeys \ {k} :
       (j \in {"include_folder", "include_file", "include_extension", "include_path_by_file"})
         = (k \in {"include_folder", "include_file", "include_extension", "include_path_by_file"})
       => matcher.sections[j] = <<>>

\* C10: in case-insensitive mode what the include rules and the exclude
\* rules say about a file does not change with the letter case of the rule
\* lines or of the file's path; include_extension 'm' matches 'D/A.M' and
\* exclude_folder 'd' matches its ancestor 'D' in that mode, and neither
\* does in case-sensitive mode.
C10_CaseInsensitive ==
  pc = "done" =>
    \A c \in Candidates :
      /\ ~case_sensitive =>
           \A m \in MatcherVariants : \A v \in CandidateVariants(c) :
             RuleVerdicts(m, v) = RuleVerdicts(matcher, c)
      /\ (c.dir = <<(<<"D">>)>> /\ c.name = <<"A", ".", "M">>) =>
           /\ OnlyRule("include_extension", <<"m">>) => (Included(c) <=> ~case_sensitive)
           /\ OnlyRule("exclude_folder", <<"d">>) => (ExcludedByRule(c) <=> ~case_sensitive)

\* C10 witness: in case-insensitive mode 'D/A.M' is returned because
\* include_extension 'm' overrides exclude_folder 'd'.
C10_Witness ==
  /\ pc = "done"
  /\ ~case_sensitive
  /\ OnlyRule("include_extension", <<"m">>)
  /\ OnlyRule("exclude_folder", <<"d">>)
  /\ \E c \in Candidates :
       /\ c.dir = <<(<<"D">>)>> /\ c.name = <<"A", ".", "M">>
       /\ Included(c) /\ ExcludedByRule(c) /\ InFiles(RelOf(c))

\* line i of the rules file, trimmed
Trimmed(i) == strip(rules_path.lines[i])

\* line i is blank or a comment
BlankOrComment(i) == Trimmed(i) = <<>> \/ StartsWith(Trimmed(i), "#")

\* line i has the form '[...]'
HeaderForm(i) ==
  ~BlankOrComment(i) /\ StartsWith(Trimmed(i), "[") /\ EndsWith(Trimmed(i), "]")

\* line i is a pattern line
PatternLine(i) == ~BlankOrComment(i) /\ ~HeaderForm(i)

\* the last line of the form '[...]' before line i, 0 when there is none
HeaderBefore(i) ==
  IF \E j \in 1..(i - 1) : HeaderForm(j)
    THEN CHOOSE j \in 1..(i - 1) :
           HeaderForm(j) /\ \A h \in (j + 1)..(i - 1) : ~HeaderForm(h)
    ELSE 0

\* category k is the current section when line i is read
CurrentAt(i, k) ==
  /\ HeaderBefore(i) # 0
  /\ strip(Slice(Trimmed(HeaderBefore(i)), 2, Len(Trimmed(HeaderBefore(i))) - 1)) = KeyText(k)

\* the pattern lines read while k is the current section
LinesOf(k) == {i \in 1..Len(rules_path.lines) : PatternLine(i) /\ CurrentAt(i, k)}

\* where the value v first stands among the lines of k
FirstAt(k, v) ==
  CHOOSE i \in LinesOf(k) :
    Trimmed(i) = v /\ \A j \in LinesOf(k) : Trimmed(j) = v => i <= j

\* C11: read_rules_file returns the seven categories, and each holds exactly
\* the trimmed pattern lines read while it was the current section, each
\* once, in the order of their first occurrences; a pattern line read under
\* no recognized header is in no category.
C11_ParsedSections ==
  pc # "start" =>
    /\ DOMAIN matcher.sections = SectionKeys
    /\ \A k \in SectionKeys :
         LET r == matcher.sections[k]
         IN /\ {r[n] : n \in 1..Len(r)} = {Trimmed(i) : i \in LinesOf(k)}
            /\ \A n, m \in 1..Len(r) : n < m => FirstAt(k, r[n]) < FirstAt(k, r[m])

\* C11 witness: a parsed file in which a category lost a duplicate line and
\* a pattern line stood under no recognized header.
C11_Witness ==
  /\ pc # "start"
  /\ \E k \in SectionKeys :
       matcher.sections[k] # <<>> /\ Cardinality(LinesOf(k)) > Len(matcher.sections[k])
  /\ \E i \in 1..Len(rules_path.lines) :
       PatternLine(i) /\ \A k \in SectionKeys : ~CurrentAt(i, k)

\* the directory symlink l points at the directory holding it or above
PointsBack(l) == l.target \in Prefixes(l.dir)

\* the relative path x runs through the link l at least twice in a row
ThroughTwice(x, l) ==
  LET lp == Append(l.dir, l.name)
      comps == SplitSlash(x)
  IN /\ Len(comps) > Len(lp) + 1
     /\ SubSeq(comps, 1, Len(lp)) = lp
     /\ comps[Len(lp) + 1] = l.name

\* C12: on every tree, with follow_symlinks off or on and also with a
\* directory symlink that points back at an ancestor, enumerate_files
\* eventually returns.
C12_WalkTerminates == <>(pc = "done")

\* C12 witness: with follow_symlinks the walk went round a directory symlink
\* that points back at its own directory, and returned.
C12_Witness ==
  /\ pc = "done"
  /\ follow_symlinks
  /\ \E l \in links :
       PointsBack(l) /\ \E n \in 1..Len(files) : ThroughTwice(files[n], l)

====
